---- MODULE Spec2Model ----
(***************************************************************************)
(* Model of monitor.py: the DOI resolution chain (extract_doi), the        *)
(* abstract lookup with fallback (fetch_abstract), and the main workflow   *)
(* (historical import followed by the live pass with the since_id file).   *)
(* Python strings are TLA+ strings; regular expressions are modelled by    *)
(* operators that scan the string as re.search / re.findall do (leftmost   *)
(* match, greedy quantifiers).                                             *)
(***************************************************************************)
EXTENDS Integers, Sequences, FiniteSets, TLC

VARIABLES
    call,          \* the last application of a function under test, with its inputs
    pc,            \* where the process is: idle, hist, fetch, live, done, crashed, noconfig
    run,           \* the number of invocations of the program so far
    histFile,      \* extracted_tweets.txt: its text, None when the file is missing
    urls,          \* main: urls, the result of fetch_historical_urls
    seen,          \* main: seen
    hi,            \* main: the position of the historical loop in urls
    sheet,         \* the rows of the Google sheet, in the order appended
    sinceFile,     \* since_id.txt: its text, None when the file does not exist
    account,       \* the posts of the account, oldest first
    tweets,        \* main: tweets, the result of fetch_new_tweets
    todo,          \* the (tweet, url entity) pairs of the live loops, in loop order
    li,            \* the position of the live loops in todo
    attempts,      \* history: the extract_doi calls of this invocation, in order,
                   \*          each with whether its iteration appended a row
    last,          \* history: the outcome of the latest loop iteration
    writes,        \* history: the writes of since_id.txt by this invocation
    base,          \* history: the number of rows when this invocation started
    fetchedBefore  \* history: the ids of the posts fetched by earlier invocations

mainVars == <<pc, run, histFile, urls, seen, hi, sheet, sinceFile, account, tweets,
              todo, li, attempts, last, writes, base, fetchedBefore>>

vars == <<call, pc, run, histFile, urls, seen, hi, sheet, sinceFile, account, tweets,
          todo, li, attempts, last, writes, base, fetchedBefore>>

(***************************************************************************)
(* Python values                                                           *)
(***************************************************************************)
\* Python's None, and a present value, as one record shape.
None == [some |-> FALSE, val |-> ""]

Some(v) == [some |-> TRUE, val |-> v]

(***************************************************************************)
(* Characters and strings                                                  *)
(***************************************************************************)
Digits == {"0", "1", "2", "3", "4", "5", "6", "7", "8", "9"}

Letters ==
    {"a", "b", "c", "d", "e", "f", "g", "h", "i", "j", "k", "l", "m",
     "n", "o", "p", "q", "r", "s", "t", "u", "v", "w", "x", "y", "z",
     "A", "B", "C", "D", "E", "F", "G", "H", "I", "J", "K", "L", "M",
     "N", "O", "P", "Q", "R", "S", "T", "U", "V", "W", "X", "Y", "Z"}

\* The character class [-._;()/:A-Za-z0-9] of the DOI pattern.
DoiChars == {"-", ".", "_", ";", "(", ")", "/", ":"} \cup Letters \cup Digits

\* Python's \s (the whitespace the inputs use).
Whitespace == {" ", "\t", "\n", "\r"}

\* The i-th character of s, "" outside the string.
Ch(s, i) == IF i >= 1 /\ i <= Len(s) THEN SubSeq(s, i, i) ELSE ""

\* s[i .. i+Len(p)-1] = p
HasAt(s, i, p) ==
    /\ i >= 1
    /\ Ch(s, i) = Ch(p, 1)
    /\ i + Len(p) - 1 <= Len(s)
    /\ SubSeq(s, i, i + Len(p) - 1) = p

\* The number of consecutive characters of the class cs starting at position i.
RECURSIVE Run(_, _, _)
Run(s, i, cs) == IF Ch(s, i) \in cs THEN 1 + Run(s, i + 1, cs) ELSE 0

\* The number of consecutive characters outside the class cs starting at i.
RECURSIVE RunNot(_, _, _)
RunNot(s, i, cs) ==
    IF i <= Len(s) /\ Ch(s, i) \notin cs THEN 1 + RunNot(s, i + 1, cs) ELSE 0

SetMax(S) == CHOOSE x \in S : \A y \in S : y <= x

SetMin(S) == CHOOSE x \in S : \A y \in S : x <= y

(***************************************************************************)
(* The DOI pattern  10\.\d{4,9}/[-._;()/:A-Za-z0-9]+                       *)
(***************************************************************************)
MinDigits == 4

MaxDigits == 9

\* The digit counts k with which the pattern matches at position i.
DoiDigitCounts(s, i) ==
    IF HasAt(s, i, "10.")
    THEN {k \in MinDigits..MaxDigits :
            /\ Run(s, i + 3, Digits) >= k
            /\ Ch(s, i + 3 + k) = "/"
            /\ Run(s, i + 4 + k, DoiChars) >= 1}
    ELSE {}

\* The last position of the (greedy) match that starts at i, 0 when none does.
DoiMatchEnd(s, i) ==
    IF DoiDigitCounts(s, i) = {} THEN 0
    ELSE LET k == SetMax(DoiDigitCounts(s, i))
         IN  i + 3 + k + Run(s, i + 4 + k, DoiChars)

\* re.search(pattern, s) followed by m.group(1): the leftmost match, or None.
DoiSearch(s) ==
    LET starts == {i \in 1..Len(s) : DoiMatchEnd(s, i) > 0}
    IN  IF starts = {} THEN None
        ELSE LET i == SetMin(starts)
             IN  Some(SubSeq(s, i, DoiMatchEnd(s, i)))

\* re.fullmatch of the pattern: the whole string is one identifier.
IsDoi(s) == Len(s) > 0 /\ DoiMatchEnd(s, 1) = Len(s)

(***************************************************************************)
(* The pattern  <meta name="citation_doi" content="([^"]+)"                *)
(***************************************************************************)
MetaPrefix == "<meta name=\"citation_doi\" content=\""

\* The last position of group 1 of the match that starts at i, 0 when none.
MetaMatchEnd(s, i) ==
    IF ~HasAt(s, i, MetaPrefix) THEN 0
    ELSE LET from == i + Len(MetaPrefix)
             n    == RunNot(s, from, {"\""})
         IN  IF n >= 1 /\ Ch(s, from + n) = "\"" THEN from + n - 1 ELSE 0

\* re.search(pattern, html) followed by m.group(1).
MetaSearch(s) ==
    LET starts == {i \in 1..Len(s) : MetaMatchEnd(s, i) > 0}
    IN  IF starts = {} THEN None
        ELSE LET i == SetMin(starts)
             IN  Some(SubSeq(s, i + Len(MetaPrefix), MetaMatchEnd(s, i)))

(***************************************************************************)
(* Outcomes of a call: a return value or an exception reaching the caller, *)
(* with the network requests the call issued, in order.                    *)
(***************************************************************************)
Return(v, reqs) == [raised |-> FALSE, ret |-> v, calls |-> reqs]

Raise(reqs) == [raised |-> TRUE, ret |-> None, calls |-> reqs]

\* requests.head(url, allow_redirects=True): an exception, or the final URL.
HeadFailed == [ok |-> FALSE, url |-> ""]

HeadOk(final) == [ok |-> TRUE, url |-> final]

\* requests.get(url).text: an exception, or the body of the response.
GetFailed == [ok |-> FALSE, text |-> ""]

GetOk(html) == [ok |-> TRUE, text |-> html]

(***************************************************************************)
(* extract_doi                                                             *)
(***************************************************************************)
\* Mutant: the redirect request is issued before the URL itself is examined.
extract_doi_HeadFirst(url, head, get) ==
    IF ~url.some THEN Raise(<<>>)
    ELSE IF head.ok /\ DoiSearch(head.url).some
         THEN Return(DoiSearch(head.url), <<"HEAD">>)
    ELSE IF DoiSearch(url.val).some THEN Return(DoiSearch(url.val), <<"HEAD">>)
    ELSE IF get.ok /\ MetaSearch(get.text).some
         THEN Return(MetaSearch(get.text), <<"HEAD", "GET">>)
    ELSE Return(None, <<"HEAD", "GET">>)

\* Mutant: a stage-2 match does not end the chain; the page's declaration wins.
extract_doi_NoShortCircuit(url, head, get) ==
    IF ~url.some THEN Raise(<<>>)
    ELSE IF DoiSearch(url.val).some THEN Return(DoiSearch(url.val), <<>>)
    ELSE IF get.ok /\ MetaSearch(get.text).some
         THEN Return(MetaSearch(get.text), <<"HEAD", "GET">>)
    ELSE IF head.ok /\ DoiSearch(head.url).some
         THEN Return(DoiSearch(head.url), <<"HEAD", "GET">>)
    ELSE Return(None, <<"HEAD", "GET">>)

\* Mutant: a failed redirect request is tried a second time.
extract_doi_Retry(url, head, get) ==
    IF ~url.some THEN Raise(<<>>)
    ELSE IF DoiSearch(url.val).some THEN Return(DoiSearch(url.val), <<>>)
    ELSE IF head.ok /\ DoiSearch(head.url).some
         THEN Return(DoiSearch(head.url), <<"HEAD">>)
    ELSE IF get.ok /\ MetaSearch(get.text).some
         THEN Return(MetaSearch(get.text),
                     IF head.ok THEN <<"HEAD", "GET">> ELSE <<"HEAD", "HEAD", "GET">>)
    ELSE Return(None, IF head.ok THEN <<"HEAD", "GET">> ELSE <<"HEAD", "HEAD", "GET">>)

\* extract_doi(url) when the redirect request ends as `head` and the page
\* retrieval as `get`.  url is None when the caller passes Python's None:
\* re.search then raises TypeError, outside any try block.
extract_doi(url, head, get) ==
    IF ~url.some THEN Raise(<<>>)
    \* 1) direct regex
    ELSE IF DoiSearch(url.val).some THEN Return(DoiSearch(url.val), <<>>)
    \* 2) follow redirects and regex; an exception is swallowed
    ELSE IF head.ok /\ DoiSearch(head.url).some
         THEN Return(DoiSearch(head.url), <<"HEAD">>)
    \* 3) HTML meta tag; an exception is swallowed
    ELSE IF get.ok /\ MetaSearch(get.text).some
         THEN Return(MetaSearch(get.text), <<"HEAD", "GET">>)
    ELSE Return(None, <<"HEAD", "GET">>)

(***************************************************************************)
(* Inputs of the resolution chain                                          *)
(***************************************************************************)
\* URLs as the callers pass them (None: a link entity without expanded_url).
ResolveUrls ==
    {Some("https://doi.org/10.1000/xyz123"),
     Some("https://doi.org/10.1000/a?b=10.2000/c"),
     Some("http://x.org/10.12345/a-b_c;(d):e/f#g"),
     Some("https://t.co/abc"),
     Some("https://x.org/10.123/a"),
     Some("https://x.org/10.1234567890/a"),
     Some("https://x.org/10.1000/"),
     None}

FinalUrls ==
    {"https://t.co/abc",
     "https://pubs.org/doi/10.1021/acs.nano.1c00001",
     "https://pubs.org/article/10.123/a",
     "https://pubs.org/10.123456789/z?x"}

Htmls ==
    {"",
     "<html></html>",
     "<meta name=\"citation_doi\" content=\"10.1038/s41586-020-1\">",
     "<meta name=\"citation_doi\" content=\"doi:10.1000/xyz123\">",
     "<meta name=\"citation_doi\" content=\"not a doi\"><p>\"",
     "<meta name=\"citation_doi\" content=\"\">",
     "<meta name=\"citation_doi\" content=\"10.1000/open"}

HeadOutcomes == {HeadFailed} \cup {HeadOk(u) : u \in FinalUrls}

GetOutcomes == {GetFailed} \cup {GetOk(h) : h \in Htmls}

NoCall == [fn |-> "none"]

\* An input of extract_doi and a behaviour of the network, not yet applied.
ResolveInputs ==
    {[fn |-> "extract_doi?", url |-> url, head |-> head, get |-> get] :
        url \in ResolveUrls, head \in HeadOutcomes, get \in GetOutcomes}

\* The application of extract_doi to the input.
Resolve ==
    /\ call.fn = "extract_doi?"
    /\ call' = [fn |-> "extract_doi", url |-> call.url, head |-> call.head,
                get |-> call.get, out |-> extract_doi(call.url, call.head, call.get)]

(***************************************************************************)
(* str.strip, str(int), int(str), "; ".join                                *)
(***************************************************************************)
RECURSIVE LStrip(_)
LStrip(s) ==
    IF Len(s) > 0 /\ Ch(s, 1) \in Whitespace THEN LStrip(SubSeq(s, 2, Len(s))) ELSE s

RECURSIVE RStrip(_)
RStrip(s) ==
    IF Len(s) > 0 /\ Ch(s, Len(s)) \in Whitespace
    THEN RStrip(SubSeq(s, 1, Len(s) - 1)) ELSE s

Strip(s) == RStrip(LStrip(s))

DigitChar == <<"0", "1", "2", "3", "4", "5", "6", "7", "8", "9">>

DigitValue(c) == CHOOSE d \in 0..9 : DigitChar[d + 1] = c

\* str(n) for n >= 0
RECURSIVE Str(_)
Str(n) == IF n < 10 THEN DigitChar[n + 1] ELSE Str(n \div 10) \o DigitChar[(n % 10) + 1]

\* The value of a string of digits.
RECURSIVE DigitsValue(_)
DigitsValue(s) ==
    IF Len(s) = 0 THEN 0
    ELSE 10 * DigitsValue(SubSeq(s, 1, Len(s) - 1)) + DigitValue(Ch(s, Len(s)))

\* int(s): surrounding whitespace and one sign are accepted; None models ValueError.
ParseInt(s) ==
    LET t    == Strip(s)
        body == IF Ch(t, 1) \in {"+", "-"} THEN SubSeq(t, 2, Len(t)) ELSE t
    IN  IF Len(body) > 0 /\ Run(body, 1, Digits) = Len(body)
        THEN Some(IF Ch(t, 1) = "-" THEN 0 - DigitsValue(body) ELSE DigitsValue(body))
        ELSE None

RECURSIVE Join(_, _)
Join(strs, sep) ==
    IF Len(strs) = 0 THEN ""
    ELSE IF Len(strs) = 1 THEN strs[1]
    ELSE strs[1] \o sep \o Join(Tail(strs), sep)

(***************************************************************************)
(* fetch_abstract                                                          *)
(***************************************************************************)
\* The Semantic Scholar request: an exception, or a status with a body that
\* parses as JSON or not and whose "abstract" is a string or None / missing.
SsResponse(exc, status, json, abstract) ==
    [exc |-> exc, status |-> status, json |-> json, abstract |-> abstract]

\* The Crossref XML request: an exception, or a status with a body that is
\* well-formed or not; abstract is the text of the first abstract element,
\* None when the document has none.
XmlResponse(exc, status, wellformed, abstract) ==
    [exc |-> exc, status |-> status, wellformed |-> wellformed, abstract |-> abstract]

\* Mutant: without the Crossref fallback.
fetch_abstract_NoFallback(doi, ss, xml) ==
    IF ~ss.exc /\ ss.status = 200 /\ ss.json /\ ss.abstract.some /\ ss.abstract.val # ""
    THEN Return(ss.abstract.val, <<"SS">>)
    ELSE Return("", <<"SS">>)

fetch_abstract(doi, ss, xml) ==
    \* Semantic Scholar: status 200, a JSON body, a truthy "abstract"
    IF ~ss.exc /\ ss.status = 200 /\ ss.json /\ ss.abstract.some /\ ss.abstract.val # ""
    THEN Return(ss.abstract.val, <<"SS">>)
    \* Crossref XML: status 200, well-formed, an abstract element
    ELSE IF ~xml.exc /\ xml.status = 200 /\ xml.wellformed /\ xml.abstract.some
    THEN Return(Strip(xml.abstract.val), <<"SS", "XML">>)
    ELSE Return("", <<"SS", "XML">>)

SsOutcomes ==
    {SsResponse(TRUE, 0, FALSE, None),
     SsResponse(FALSE, 404, TRUE, None),
     SsResponse(FALSE, 429, FALSE, None),
     SsResponse(FALSE, 200, FALSE, None),
     SsResponse(FALSE, 200, TRUE, None),
     SsResponse(FALSE, 200, TRUE, Some("")),
     SsResponse(FALSE, 200, TRUE, Some("Primary abstract.")),
     SsResponse(FALSE, 200, TRUE, Some(" "))}

XmlOutcomes ==
    {XmlResponse(TRUE, 0, FALSE, None),
     XmlResponse(FALSE, 404, TRUE, Some("Not the record")),
     XmlResponse(FALSE, 200, FALSE, None),
     XmlResponse(FALSE, 200, TRUE, None),
     XmlResponse(FALSE, 200, TRUE, Some("")),
     XmlResponse(FALSE, 200, TRUE, Some(" \n ")),
     XmlResponse(FALSE, 200, TRUE, Some("\n  Secondary abstract. \n"))}

AbstractDois == {"10.1000/xyz123", "doi:10.1000/xyz123"}

\* An input of fetch_abstract and a behaviour of the two services, not yet applied.
AbstractInputs ==
    {[fn |-> "fetch_abstract?", doi |-> doi, ss |-> ss, xml |-> xml] :
        doi \in AbstractDois, ss \in SsOutcomes, xml \in XmlOutcomes}

\* The application of fetch_abstract to the input.
Abstract ==
    /\ call.fn = "fetch_abstract?"
    /\ call' = [fn |-> "fetch_abstract", doi |-> call.doi, ss |-> call.ss,
                xml |-> call.xml, out |-> fetch_abstract(call.doi, call.ss, call.xml)]

(***************************************************************************)
(* fetch_metadata                                                          *)
(***************************************************************************)
\* A Crossref "message": list fields and dates are None when the key is
\* missing; a date is its date-parts (None when that key is missing).
Message(title, container, author, issued, print, online) ==
    [title |-> title, container |-> container, author |-> author,
     issued |-> issued, print |-> print, online |-> online,
     volume |-> None, issue |-> None, page |-> None, publisher |-> None]

\* The Crossref request: an exception, or a status with a body; json is FALSE
\* when the body is not JSON or has no "message".
CrossrefResponse(exc, status, json, msg) ==
    [exc |-> exc, status |-> status, json |-> json, msg |-> msg]

\* f"{a.get('given','')} {a.get('family','')}".strip()
AuthorName(a) ==
    Strip((IF a.given.some THEN a.given.val ELSE "") \o " "
          \o (IF a.family.some THEN a.family.val ELSE ""))

\* msg.get(key, "")
GetOr(field, default) == IF field.some THEN field.val ELSE default

\* Mutant: the year is taken from published-print, then published-online,
\* then issued.
fetch_metadata_PrintFirst(doi, resp) ==
    IF resp.exc \/ resp.status >= 400 \/ ~resp.json THEN Raise(<<"CR">>)
    ELSE LET msg     == resp.msg
             titles  == GetOr(msg.title, <<"">>)
             journals == GetOr(msg.container, <<"">>)
             date    == IF msg.print.some THEN msg.print
                        ELSE IF msg.online.some THEN msg.online
                        ELSE msg.issued
             parts   == IF date.some THEN GetOr(date.val, <<<<None>>>>) ELSE <<<<None>>>>
         IN  IF Len(titles) = 0 \/ Len(journals) = 0 \/ Len(parts) = 0 THEN Raise(<<"CR">>)
             ELSE IF Len(parts[1]) = 0 THEN Raise(<<"CR">>)
             ELSE Return([title     |-> titles[1],
                          journal   |-> journals[1],
                          authors   |-> [i \in 1..Len(msg.author) |-> AuthorName(msg.author[i])],
                          year      |-> parts[1][1],
                          volume    |-> GetOr(msg.volume, ""),
                          issue     |-> GetOr(msg.issue, ""),
                          pages     |-> GetOr(msg.page, ""),
                          publisher |-> GetOr(msg.publisher, ""),
                          doi       |-> doi],
                         <<"CR">>)

fetch_metadata(doi, resp) ==
    \* requests.get, raise_for_status, resp.json()["message"]
    IF resp.exc \/ resp.status >= 400 \/ ~resp.json THEN Raise(<<"CR">>)
    ELSE LET msg     == resp.msg
             titles  == GetOr(msg.title, <<"">>)
             journals == GetOr(msg.container, <<"">>)
             parts   == IF msg.issued.some
                        THEN GetOr(msg.issued.val, <<<<None>>>>)
                        ELSE <<<<None>>>>
         IN  \* [0] of an empty list raises IndexError
             IF Len(titles) = 0 \/ Len(journals) = 0 \/ Len(parts) = 0 THEN Raise(<<"CR">>)
             ELSE IF Len(parts[1]) = 0 THEN Raise(<<"CR">>)
             ELSE Return([title     |-> titles[1],
                          journal   |-> journals[1],
                          authors   |-> [i \in 1..Len(msg.author) |-> AuthorName(msg.author[i])],
                          year      |-> parts[1][1],
                          volume    |-> GetOr(msg.volume, ""),
                          issue     |-> GetOr(msg.issue, ""),
                          pages     |-> GetOr(msg.page, ""),
                          publisher |-> GetOr(msg.publisher, ""),
                          doi       |-> doi],
                         <<"CR">>)

(***************************************************************************)
(* append_row                                                              *)
(***************************************************************************)
Row(meta, abstract, source) ==
    [title |-> meta.title, authors |-> Join(meta.authors, "; "),
     journal |-> meta.journal, year |-> meta.year, doi |-> meta.doi,
     abstract |-> abstract, source |-> source]

\* Mutant: the row is inserted at the top of the sheet.
append_row_Prepend(rows, meta, abstract, source, sinkOk) ==
    IF sinkOk THEN [raised |-> FALSE, sheet |-> <<Row(meta, abstract, source)>> \o rows]
    ELSE [raised |-> TRUE, sheet |-> rows]

\* The sheet after append_row, and whether sheet.append_row raised.
append_row(rows, meta, abstract, source, sinkOk) ==
    IF sinkOk THEN [raised |-> FALSE, sheet |-> Append(rows, Row(meta, abstract, source))]
    ELSE [raised |-> TRUE, sheet |-> rows]

(***************************************************************************)
(* fetch_historical_urls:  re.findall(r'https?://\S+', content)            *)
(***************************************************************************)
\* The last position of the match of https?://\S+ that starts at i, 0 when none.
UrlMatchEnd(s, i) ==
    LET from == IF HasAt(s, i, "https://") THEN i + 8
                ELSE IF HasAt(s, i, "http://") THEN i + 7
                ELSE 0
        n    == IF from = 0 THEN 0 ELSE RunNot(s, from, Whitespace)
    IN  IF n >= 1 THEN from + n - 1 ELSE 0

\* The non-overlapping matches from position pos on, left to right.
RECURSIVE FindAllFrom(_, _)
FindAllFrom(s, pos) ==
    LET starts == {i \in pos..Len(s) : UrlMatchEnd(s, i) > 0}
    IN  IF starts = {} THEN <<>>
        ELSE LET i == SetMin(starts)
             IN  <<SubSeq(s, i, UrlMatchEnd(s, i))>> \o FindAllFrom(s, UrlMatchEnd(s, i) + 1)

\* file is None when extracted_tweets.txt does not exist.
\* Mutant: the historical text is not read.
fetch_historical_urls_Skip(file) == <<>>

fetch_historical_urls(file) == IF file.some THEN FindAllFrom(file.val, 1) ELSE <<>>

(***************************************************************************)
(* fetch_new_tweets                                                        *)
(***************************************************************************)
MAX_RESULTS == 100

TW_USERNAME == "nanomotorupdate"

RECURSIVE Reverse(_)
Reverse(q) == IF Len(q) = 0 THEN <<>> ELSE Append(Reverse(Tail(q)), Head(q))

IdsOf(tws) == {tws[i].id : i \in 1..Len(tws)}

\* client.get_users_tweets(id, start_time=START_TIME, since_id=floor,
\* max_results=MAX_RESULTS): the posts created since START_TIME with an id above
\* the floor (when one is sent), newest first, one page of them.
FeedPage(posts, floor) ==
    LET Eligible(t) == ~t.old /\ (floor.some => t.id > floor.val)
        newestFirst == Reverse(SelectSeq(posts, Eligible))
    IN  IF Len(newestFirst) > MAX_RESULTS THEN SubSeq(newestFirst, 1, MAX_RESULTS)
        ELSE newestFirst

\* Mutant: the lowest id of the page is saved.
CursorValue_Min(tws) == SetMin(IdsOf(tws))

\* max(t.id for t in tweets)
CursorValue(tws) == SetMax(IdsOf(tws))

\* Mutant: the floor read from since_id.txt is not sent to the feed.
fetch_new_tweets_NoFloor(user, feedOk, file, posts) ==
    LET page == FeedPage(posts, None)
    IN  IF user = "exc" THEN [raised |-> FALSE, tweets |-> <<>>, file |-> file, wrote |-> 0]
        ELSE IF user = "nodata" \/ ~feedOk
             THEN [raised |-> TRUE, tweets |-> <<>>, file |-> file, wrote |-> 0]
        ELSE IF page # <<>>
             THEN [raised |-> FALSE, tweets |-> page,
                   file |-> Some(Str(CursorValue(page))), wrote |-> 1]
        ELSE [raised |-> FALSE, tweets |-> <<>>, file |-> file, wrote |-> 0]

\* Mutant: since_id.txt is never read.
read_since_id_Never(file) == None

\* params["since_id"]: the integer in since_id.txt; not sent when the file does
\* not exist or int() raises ValueError.
read_since_id(file) == IF file.some THEN ParseInt(file.val) ELSE None

\* Mutant: the saved id never goes down (max-merge with the stored one).
fetch_new_tweets_page_MaxMerge(user, feedOk, file, page) ==
    IF user = "exc" THEN [raised |-> FALSE, tweets |-> <<>>, file |-> file, wrote |-> 0]
    ELSE IF user = "nodata" \/ ~feedOk
         THEN [raised |-> TRUE, tweets |-> <<>>, file |-> file, wrote |-> 0]
    ELSE IF page # <<>>
         THEN [raised |-> FALSE, tweets |-> page, wrote |-> 1,
               file |-> IF read_since_id(file).some
                           /\ read_since_id(file).val > CursorValue(page)
                        THEN Some(Str(read_since_id(file).val))
                        ELSE Some(Str(CursorValue(page)))]
    ELSE [raised |-> FALSE, tweets |-> <<>>, file |-> file, wrote |-> 0]

\* Mutant: since_id.txt is written whatever the page holds.
fetch_new_tweets_page_AlwaysWrite(user, feedOk, file, page) ==
    IF user = "exc" THEN [raised |-> FALSE, tweets |-> <<>>, file |-> Some("0"), wrote |-> 1]
    ELSE IF user = "nodata" \/ ~feedOk
         THEN [raised |-> TRUE, tweets |-> <<>>, file |-> file, wrote |-> 0]
    ELSE [raised |-> FALSE, tweets |-> page, wrote |-> 1,
          file |-> Some(Str(IF page = <<>> THEN 0 ELSE CursorValue(page)))]

\* fetch_new_tweets() from the answer `page` (resp.data) of get_users_tweets:
\* the tweets returned, since_id.txt afterwards, and the number of writes of it.
fetch_new_tweets_page(user, feedOk, file, page) ==
    \* get_user raised: logged, return []
    IF user = "exc" THEN [raised |-> FALSE, tweets |-> <<>>, file |-> file, wrote |-> 0]
    \* user is None (user.id), or get_users_tweets raised: not caught
    ELSE IF user = "nodata" \/ ~feedOk
         THEN [raised |-> TRUE, tweets |-> <<>>, file |-> file, wrote |-> 0]
    ELSE IF page # <<>>
         THEN [raised |-> FALSE, tweets |-> page,
               file |-> Some(Str(CursorValue(page))), wrote |-> 1]
    ELSE [raised |-> FALSE, tweets |-> <<>>, file |-> file, wrote |-> 0]

\* fetch_new_tweets() when get_user ends as `user` ("ok", "exc": it raised,
\* "nodata": it returned no user), get_users_tweets succeeds or raises, and the
\* feed holds `posts` and honours since_id.
fetch_new_tweets(user, feedOk, file, posts) ==
    fetch_new_tweets_page(user, feedOk, file, FeedPage(posts, read_since_id(file)))

(***************************************************************************)
(* main: one iteration of either loop                                      *)
(***************************************************************************)
\* f"https://twitter.com/{TW_USERNAME}/status/{tw.id}"
TweetUrl(id) == "https://twitter.com/" \o TW_USERNAME \o "/status/" \o Str(id)

\* (tw.entities or {}).get("urls", []); entities is None also for an entities
\* object without "urls".  Each element is u.get("expanded_url").
UrlsOf(tw) == IF tw.entities.some THEN tw.entities.val ELSE <<>>

\* The iterations of  for tw in tweets: for u in urls  in order.
RECURSIVE LiveItems(_)
LiveItems(tws) ==
    IF Len(tws) = 0 THEN <<>>
    ELSE [i \in 1..Len(UrlsOf(tws[1])) |-> [tid |-> tws[1].id, url |-> UrlsOf(tws[1])[i]]]
         \o LiveItems(Tail(tws))

\* Mutant: the URL is not added to seen.
Mark_Forget(seenUrls, url) == seenUrls

\* seen.add(url)
Mark(seenUrls, url) == seenUrls \cup {url}

\* The body of the loop for one URL, d being the outcome of extract_doi(url):
\* the test of doi, then fetch_metadata, fetch_abstract and append_row inside
\* try / except Exception.
\*   res: "raised" (an exception left the loop), "nodoi", "failed" (caught
\*   and logged) or "appended"; doi: the identifier passed on, if any.
ProcessUrl(d, source, rows, cr, ss, xml, sinkOk) ==
    LET m == fetch_metadata(d.ret.val, cr)
        a == fetch_abstract(d.ret.val, ss, xml)
        w == append_row(rows, m.ret, a.ret, source, sinkOk)
    IN  IF d.raised THEN [res |-> "raised", sheet |-> rows, doi |-> None]
        ELSE IF ~d.ret.some \/ d.ret.val = "" THEN [res |-> "nodoi", sheet |-> rows, doi |-> None]
        ELSE IF m.raised THEN [res |-> "failed", sheet |-> rows, doi |-> d.ret]
        ELSE IF w.raised THEN [res |-> "failed", sheet |-> rows, doi |-> d.ret]
        ELSE [res |-> "appended", sheet |-> w.sheet, doi |-> d.ret]

(***************************************************************************)
(* Bounds and inputs of the workflow                                       *)
(***************************************************************************)
MaxRuns == 2

MaxTweets == 2

DirectUrl == "https://doi.org/10.1000/xyz123"

ShortUrl == "https://t.co/abc"

\* extracted_tweets.txt
HistFiles ==
    {None,
     Some("no links here"),
     Some("see https://doi.org/10.1000/xyz123 and duplicate https://doi.org/10.1000/xyz123"),
     Some("https://t.co/abc\nhttps://doi.org/10.1000/xyz123 https://t.co/abc xhttps://t.co/abc")}

\* tw.entities of a post: None, or its url entities (each its expanded_url,
\* None when the entity has none).
TweetEntities ==
    {None,
     Some(<<Some(ShortUrl), Some(DirectUrl)>>),
     Some(<<None, Some(DirectUrl)>>)}

\* The k-th post of the account.
Tweet(k, old, entities) == [id |-> 8 + k, old |-> old, entities |-> entities]

MainHeads == {HeadFailed, HeadOk("https://pubs.org/article/10.123/a")}

MainGets == {GetFailed, GetOk("<meta name=\"citation_doi\" content=\"doi:10.1000/xyz123\">")}

GoodMessage ==
    Message(Some(<<"A title">>), Some(<<"A journal">>),
            <<[given |-> Some("Ada"), family |-> Some("Lovelace")],
              [given |-> None, family |-> Some("Consortium")]>>,
            Some(Some(<<<<Some(2021), Some(3)>>>>)), None, None)

MainCrossrefs ==
    {CrossrefResponse(FALSE, 404, FALSE, GoodMessage),
     CrossrefResponse(FALSE, 200, TRUE, GoodMessage),
     CrossrefResponse(FALSE, 200, TRUE,
                      Message(Some(<<>>), None, <<>>, None, None, None))}

\* In the workflow the primary service has no abstract and the fallback has one.
MainSs == {SsResponse(FALSE, 200, TRUE, None)}

MainXml == {XmlResponse(FALSE, 200, TRUE, Some("\n  Secondary abstract. \n"))}

\* The URLs the loops can meet: those of the historical files and of the posts.
MainUrls ==
    {Some(u) : u \in UNION {{fetch_historical_urls(f)[i] :
                                i \in 1..Len(fetch_historical_urls(f))} : f \in HistFiles}}
    \cup UNION {{UrlsOf([entities |-> e])[i] : i \in 1..Len(UrlsOf([entities |-> e]))} :
                 e \in TweetEntities}

\* extract_doi on each of them, under each behaviour of the network.
Resolved == [u \in MainUrls, head \in MainHeads, get \in MainGets |-> extract_doi(u, head, get)]

NoLast == [pass |-> "none", src |-> None, res |-> "none", doi |-> None]

(***************************************************************************)
(* The workflow                                                            *)
(***************************************************************************)
InitMain ==
    /\ pc = "idle"
    /\ run = 0
    /\ histFile \in HistFiles
    /\ urls = <<>>
    /\ seen = {}
    /\ hi = 1
    /\ sheet = <<>>
    /\ sinceFile = None
    /\ account \in {<<>>, <<Tweet(1, TRUE, Some(<<Some(DirectUrl)>>))>>}
    /\ tweets = <<>>
    /\ todo = <<>>
    /\ li = 1
    /\ attempts = <<>>
    /\ last = NoLast
    /\ writes = 0
    /\ base = 0
    /\ fetchedBefore = {}

Init == call = NoCall /\ InitMain

\* The program is invoked: the configuration is read (TW_BEARER_TOKEN,
\* init_sheet) and fetch_historical_urls fills urls.
Start ==
    /\ pc \in {"idle", "done", "crashed", "noconfig"}
    /\ run < MaxRuns
    /\ run' = run + 1
    /\ fetchedBefore' = fetchedBefore \cup IdsOf(tweets)
    /\ tweets' = <<>>
    /\ todo' = <<>>
    /\ li' = 1
    /\ attempts' = <<>>
    /\ last' = NoLast
    /\ writes' = 0
    /\ base' = Len(sheet)
    /\ seen' = {}
    /\ hi' = 1
    /\ \E configOk \in BOOLEAN :
         IF configOk
         THEN /\ urls' = fetch_historical_urls(histFile)
              /\ pc' = IF urls' = <<>> THEN "fetch" ELSE "hist"
         ELSE /\ urls' = <<>>
              /\ pc' = "noconfig"
    /\ UNCHANGED <<call, histFile, sheet, sinceFile, account>>

\* One iteration of  for url in urls.
HistStep ==
    /\ pc = "hist"
    /\ LET url == urls[hi]
       IN  IF url \in seen
           THEN /\ last' = [pass |-> "hist", src |-> Some(url), res |-> "dup", doi |-> None]
                /\ pc' = IF hi + 1 > Len(urls) THEN "fetch" ELSE "hist"
                /\ UNCHANGED <<seen, attempts, sheet>>
           ELSE \E head \in MainHeads, get \in MainGets, cr \in MainCrossrefs,
                   ss \in MainSs, xml \in MainXml, sinkOk \in BOOLEAN :
                  LET r == ProcessUrl(Resolved[Some(url), head, get], url, sheet,
                                      cr, ss, xml, sinkOk)
                  IN  /\ seen' = Mark(seen, url)
                      /\ attempts' = Append(attempts, [pass |-> "hist", src |-> Some(url),
                                                       row |-> r.res = "appended"])
                      /\ last' = [pass |-> "hist", src |-> Some(url),
                                  res |-> r.res, doi |-> r.doi]
                      /\ sheet' = r.sheet
                      /\ pc' = IF r.res = "raised" THEN "crashed"
                               ELSE IF hi + 1 > Len(urls) THEN "fetch" ELSE "hist"
    /\ hi' = hi + 1
    /\ UNCHANGED <<call, run, histFile, urls, sinceFile, account, tweets, todo, li,
                   writes, base, fetchedBefore>>

\* tweets = fetch_new_tweets()
FetchNewTweets ==
    /\ pc = "fetch"
    /\ \E user \in {"ok", "exc", "nodata"}, feedOk \in BOOLEAN :
         LET r == fetch_new_tweets(user, feedOk, sinceFile, account)
         IN  /\ tweets' = r.tweets
             /\ todo' = LiveItems(r.tweets)
             /\ sinceFile' = r.file
             /\ writes' = writes + r.wrote
             /\ pc' = IF r.raised THEN "crashed"
                      ELSE IF LiveItems(r.tweets) = <<>> THEN "done" ELSE "live"
    /\ li' = 1
    /\ UNCHANGED <<call, run, histFile, urls, seen, hi, sheet, account, attempts, last,
                   base, fetchedBefore>>

\* One iteration of  for tw in tweets: for u in urls.
LiveStep ==
    /\ pc = "live"
    /\ \E head \in MainHeads, get \in MainGets, cr \in MainCrossrefs,
          ss \in MainSs, xml \in MainXml, sinkOk \in BOOLEAN :
         LET item == todo[li]
             r    == ProcessUrl(Resolved[item.url, head, get], TweetUrl(item.tid), sheet,
                                cr, ss, xml, sinkOk)
         IN  /\ attempts' = Append(attempts, [pass |-> "live", src |-> item.url,
                                              row |-> r.res = "appended"])
             /\ last' = [pass |-> "live", src |-> item.url, res |-> r.res, doi |-> r.doi]
             /\ sheet' = r.sheet
             /\ pc' = IF r.res = "raised" THEN "crashed"
                      ELSE IF li + 1 > Len(todo) THEN "done" ELSE "live"
    /\ li' = li + 1
    /\ UNCHANGED <<call, run, histFile, urls, seen, hi, sinceFile, account, tweets, todo,
                   writes, base, fetchedBefore>>

\* The account posts: ids grow, the post is newer than START_TIME.  The program
\* reads the account only in fetch_new_tweets, so a post made while an
\* invocation runs is taken before or after that invocation.
PostTweet ==
    /\ pc \in {"idle", "done", "crashed", "noconfig"}
    /\ Len(account) < MaxTweets
    /\ \E e \in TweetEntities :
         account' = Append(account, Tweet(Len(account) + 1, FALSE, e))
    /\ UNCHANGED <<call, pc, run, histFile, urls, seen, hi, sheet, sinceFile, tweets,
                   todo, li, attempts, last, writes, base, fetchedBefore>>

Next == Start \/ HistStep \/ FetchNewTweets \/ LiveStep \/ PostTweet

Spec == Init /\ [][Next]_vars

(***************************************************************************)
(* The functions on their own                                              *)
(***************************************************************************)
\* The workflow at rest: nothing has been invoked.
InitIdle ==
    /\ InitMain
    /\ histFile = None
    /\ account = <<>>

InitResolve == call \in ResolveInputs /\ InitIdle

NextResolve == Resolve /\ UNCHANGED mainVars

SpecResolve == InitResolve /\ [][NextResolve]_vars

InitAbstract == call \in AbstractInputs /\ InitIdle

NextAbstract == Abstract /\ UNCHANGED mainVars

SpecAbstract == InitAbstract /\ [][NextAbstract]_vars

(***************************************************************************)
(* fetch_new_tweets over successive invocations, against any feed          *)
(***************************************************************************)
\* since_id.txt before the first invocation: absent, empty, not a number,
\* a number, a number with white space around it.
CursorFiles == {None, Some(""), Some("abc"), Some("10"), Some(" 11\n")}

\* What get_users_tweets may answer: up to two posts of ids 9..11 in any
\* order, whatever since_id was sent.
StubTweets == {Tweet(k, FALSE, None) : k \in 1..3}

StubPages ==
    {<<>>} \cup {<<t>> : t \in StubTweets}
           \cup {p \in StubTweets \X StubTweets : p[1] # p[2]}

\* No invocation yet.  file: since_id.txt now; stored: since_id.txt when the
\* latest invocation started; floor: the since_id it sent; page: the answer of
\* the feed; out: what fetch_new_tweets did; written: the id written last;
\* writtenBefore: the same when the latest invocation started; earlier: the
\* ids returned by the invocations before the latest; honest: every answer so
\* far held only ids above the since_id sent.
CursorInputs ==
    {[fn |-> "live", n |-> 0, file |-> f, stored |-> f, floor |-> None,
      user |-> "ok", feedOk |-> TRUE, page |-> <<>>,
      out |-> [raised |-> FALSE, tweets |-> <<>>, file |-> f, wrote |-> 0],
      written |-> None, writtenBefore |-> None, earlier |-> {}, honest |-> TRUE] :
        f \in CursorFiles}

\* One more invocation reaches fetch_new_tweets.
CursorRun ==
    /\ call.fn = "live"
    /\ call.n < MaxRuns
    /\ \E user \in {"ok", "exc", "nodata"}, feedOk \in BOOLEAN, page \in StubPages :
         /\ user = "ok" \/ feedOk
         /\ (user = "ok" /\ feedOk) \/ page = <<>>
         /\ LET floor == read_since_id(call.file)
                out == fetch_new_tweets_page(user, feedOk, call.file, page)
            IN  call' = [fn |-> "live", n |-> call.n + 1, file |-> out.file,
                         stored |-> call.file, floor |-> floor,
                         user |-> user, feedOk |-> feedOk, page |-> page, out |-> out,
                         written |-> IF out.wrote > 0 THEN Some(SetMax(IdsOf(page)))
                                     ELSE call.written,
                         writtenBefore |-> call.written,
                         earlier |-> call.earlier \cup IdsOf(call.out.tweets),
                         honest |-> call.honest
                                    /\ (floor.some =>
                                          \A id \in IdsOf(page) : id > floor.val)]

InitCursor == call \in CursorInputs /\ InitIdle

NextCursor == CursorRun /\ UNCHANGED mainVars

SpecCursor == InitCursor /\ [][NextCursor]_vars

(***************************************************************************)
(* fetch_new_tweets against an account with many posts                     *)
(***************************************************************************)
\* The greatest number of posts the account holds: two more than one page of
\* MAX_RESULTS.
MaxBacklog == 102

\* An account of n posts, the first o of them older than START_TIME.
Backlog(n, o) == [k \in 1..n |-> Tweet(k, k <= o, None)]

\* since_id.txt when the invocation starts: absent, not a number, the id of
\* the first post, the id of the second.
BacklogFiles == {None, Some("abc"), Some("9"), Some("10")}

\* An account, since_id.txt and the behaviour of the two feed calls, before
\* fetch_new_tweets is applied.
BacklogInputs ==
    {[fn |-> "fetch_new_tweets?", posts |-> Backlog(n, o), file |-> f,
      user |-> user, feedOk |-> feedOk] :
        n \in 0..MaxBacklog, o \in 0..1, f \in BacklogFiles,
        user \in {"ok", "exc", "nodata"}, feedOk \in BOOLEAN}

\* The application of fetch_new_tweets to the input.
FetchBacklog ==
    /\ call.fn = "fetch_new_tweets?"
    /\ call' = [fn |-> "fetch_new_tweets", posts |-> call.posts, file |-> call.file,
                user |-> call.user, feedOk |-> call.feedOk,
                out |-> fetch_new_tweets(call.user, call.feedOk, call.file, call.posts)]

InitBacklog == call \in BacklogInputs /\ InitIdle

NextBacklog == FetchBacklog /\ UNCHANGED mainVars

SpecBacklog == InitBacklog /\ [][NextBacklog]_vars

(***************************************************************************)
(* fetch_metadata on its own                                               *)
(***************************************************************************)
\* "title": missing, [], one element, two elements.
MetaTitles == {None, Some(<<>>), Some(<<"A title">>), Some(<<"A title", "A subtitle">>)}

\* "container-title": missing, [], one element.
MetaJournals == {None, Some(<<>>), Some(<<"A journal">>)}

\* "issued": missing, without "date-parts", with date-parts [], [[]], [[null]],
\* [[2020, 3]].
IssuedDates ==
    {None, Some(None), Some(Some(<<>>)), Some(Some(<< <<>> >>)),
     Some(Some(<< <<None>> >>)), Some(Some(<< <<Some(2020), Some(3)>> >>))}

\* "published-print": missing or [[2021]].
PrintDates == {None, Some(Some(<< <<Some(2021)>> >>))}

\* "published-online": missing or [[2020, 3, 14]].
OnlineDates == {None, Some(Some(<< <<Some(2020), Some(3), Some(14)>> >>))}

MetaMessages ==
    {Message(t, j, a, i, p, o) :
        t \in MetaTitles, j \in MetaJournals,
        a \in {<<>>, <<[given |-> Some("Ada"), family |-> Some("Lovelace")]>>},
        i \in IssuedDates, p \in PrintDates, o \in OnlineDates}

\* The answers of Crossref: no answer, 404, a body that is not the JSON
\* expected, or 200 with a message.
MetaResponses ==
    {CrossrefResponse(TRUE, 0, FALSE, GoodMessage),
     CrossrefResponse(FALSE, 404, FALSE, GoodMessage),
     CrossrefResponse(FALSE, 200, FALSE, GoodMessage)}
    \cup {CrossrefResponse(FALSE, 200, TRUE, m) : m \in MetaMessages}

\* An input of fetch_metadata and an answer of Crossref, not yet applied.
MetadataInputs ==
    {[fn |-> "fetch_metadata?", doi |-> "10.1000/xyz123", resp |-> resp] :
        resp \in MetaResponses}

\* The application of fetch_metadata to the input.
Metadata ==
    /\ call.fn = "fetch_metadata?"
    /\ call' = [fn |-> "fetch_metadata", doi |-> call.doi, resp |-> call.resp,
                out |-> fetch_metadata(call.doi, call.resp)]

InitMetadata == call \in MetadataInputs /\ InitIdle

NextMetadata == Metadata /\ UNCHANGED mainVars

SpecMetadata == InitMetadata /\ [][NextMetadata]_vars

(***************************************************************************)
(* Properties of extract_doi (checked under SpecResolve)                   *)
(***************************************************************************)
IsResolve == call.fn = "extract_doi"

\* s has a substring that is an identifier.
ContainsDoi(s) == \E i \in 1..Len(s) : \E j \in i..Len(s) : IsDoi(SubSeq(s, i, j))

\* d is the identifier of s that starts first, taken as long as it goes.
IsFirstDoiOf(d, s) ==
    \E i \in 1..Len(s) :
        /\ i + Len(d) - 1 <= Len(s)
        /\ SubSeq(s, i, i + Len(d) - 1) = d
        /\ IsDoi(d)
        /\ \A j \in (i + Len(d))..Len(s) : ~IsDoi(SubSeq(s, i, j))
        /\ \A i2 \in 1..(i - 1) : \A j \in i2..Len(s) : ~IsDoi(SubSeq(s, i2, j))

\* s holds  <meta name="citation_doi" content="  followed by one or more
\* characters other than the quote, followed by a quote.
HasMetaDeclaration(s) ==
    \E i \in 1..Len(s) : \E n \in 1..Len(s) :
        /\ HasAt(s, i, MetaPrefix)
        /\ \A k \in 0..(n - 1) : Ch(s, i + Len(MetaPrefix) + k) \notin {"", "\""}
        /\ Ch(s, i + Len(MetaPrefix) + n) = "\""

\* C1: every identifier extract_doi returns, whichever stage produced it,
\* matches 10.<4-9 digits>/<one or more allowed characters>.
C1_ReturnedMatchesPattern ==
    (IsResolve /\ ~call.out.raised /\ call.out.ret.some) => IsDoi(call.out.ret.val)

\* C2: for a URL containing a substring that matches the pattern, extract_doi
\* returns that substring (the first match) and issues no network request.
C2_DirectMatchNoNetwork ==
    (IsResolve /\ call.url.some /\ ContainsDoi(call.url.val))
        => /\ ~call.out.raised
           /\ call.out.ret.some
           /\ IsFirstDoiOf(call.out.ret.val, call.url.val)
           /\ call.out.calls = <<>>

\* C2 witness: a URL holding two identifiers, with a redirect target and a page
\* that hold others; the first identifier of the URL came back, nothing was sent.
C2_Witness ==
    /\ IsResolve
    /\ call.url = Some("https://doi.org/10.1000/a?b=10.2000/c")
    /\ call.head.ok /\ ContainsDoi(call.head.url)
    /\ call.get.ok /\ HasMetaDeclaration(call.get.text)
    /\ call.out.ret = Some("10.1000/a")
    /\ call.out.calls = <<>>

\* C3: for a URL with no direct match whose redirect request succeeds with a
\* final URL that matches, extract_doi returns the match of the final URL and the
\* page retrieval is not issued.
C3_RedirectMatchSkipsPage ==
    (IsResolve /\ call.url.some /\ ~ContainsDoi(call.url.val)
       /\ call.head.ok /\ ContainsDoi(call.head.url))
        => /\ ~call.out.raised
           /\ call.out.ret.some
           /\ IsFirstDoiOf(call.out.ret.val, call.head.url)
           /\ call.out.calls = <<"HEAD">>

\* C3 witness: the redirect target matched while the page declared another
\* identifier, and the target's identifier came back.
C3_Witness ==
    /\ IsResolve
    /\ call.url = Some("https://t.co/abc")
    /\ call.head = HeadOk("https://pubs.org/doi/10.1021/acs.nano.1c00001")
    /\ call.get.ok /\ HasMetaDeclaration(call.get.text)
    /\ call.out.ret = Some("10.1021/acs.nano.1c00001")
    /\ call.out.calls = <<"HEAD">>

\* A URL string that matches at none of the three stages.
NoStageMatches ==
    /\ IsResolve /\ call.url.some
    /\ ~ContainsDoi(call.url.val)
    /\ ~(call.head.ok /\ ContainsDoi(call.head.url))
    /\ ~(call.get.ok /\ HasMetaDeclaration(call.get.text))

\* C4: for a URL that matches at none of the three stages, extract_doi returns
\* nothing after exactly two requests: the redirect request, then the page
\* retrieval, each once.
C4_NoMatchTwoCalls ==
    NoStageMatches
        => /\ ~call.out.raised
           /\ call.out.ret = None
           /\ call.out.calls = <<"HEAD", "GET">>

\* C4 witness: both requests failed; each was still made once, in order.
C4_Witness ==
    /\ NoStageMatches
    /\ ~call.head.ok /\ ~call.get.ok
    /\ call.out.ret = None
    /\ call.out.calls = <<"HEAD", "GET">>

\* C5: extract_doi never raises to its caller, for every input the loops pass
\* it and every outcome of the two requests.
C5_NeverRaises == IsResolve => ~call.out.raised

(***************************************************************************)
(* Properties of fetch_abstract (checked under SpecAbstract)               *)
(***************************************************************************)
IsAbstract == call.fn = "fetch_abstract"

\* The primary service answers 200 with a non-empty abstract.
PrimaryYields(ss) ==
    ~ss.exc /\ ss.status = 200 /\ ss.json /\ ss.abstract.some /\ Len(ss.abstract.val) > 0

\* The registry answers 200 with a document whose abstract element has text
\* other than whitespace.
SecondaryYields(xml) ==
    /\ ~xml.exc /\ xml.status = 200 /\ xml.wellformed /\ xml.abstract.some
    /\ \E i \in 1..Len(xml.abstract.val) : Ch(xml.abstract.val, i) \notin Whitespace

\* C6: fetch_abstract never raises and returns a string; the empty string only
\* when neither service yields an abstract, and the primary service's abstract
\* whenever that is non-empty.
C6_AbstractTotal ==
    IsAbstract
        => /\ ~call.out.raised
           /\ call.out.ret \in STRING
           /\ (call.out.ret = "" => ~PrimaryYields(call.ss) /\ ~SecondaryYields(call.xml))
           /\ (PrimaryYields(call.ss) => call.out.ret = call.ss.abstract.val)

\* C6 witness: the primary request raised and the fallback supplied the text.
C6_Witness ==
    /\ IsAbstract
    /\ call.ss.exc
    /\ SecondaryYields(call.xml)
    /\ call.out.ret = "Secondary abstract."
    /\ call.out.calls = <<"SS", "XML">>

(***************************************************************************)
(* Properties of the workflow (checked under Spec)                         *)
(***************************************************************************)
\* The attempts of one pass, and the sources of the rows this invocation appended.
PassAttempts(pass) == SelectSeq(attempts, LAMBDA a : a.pass = pass)

RunRows == SubSeq(sheet, base + 1, Len(sheet))

RowsFrom(source) == {i \in 1..Len(RunRows) : RunRows[i].source = source}

AttemptsOf(pass, u) ==
    {i \in 1..Len(PassAttempts(pass)) : PassAttempts(pass)[i].src = Some(u)}

\* The distinct elements of a sequence, in the order of their first occurrence.
RECURSIVE Distinct(_)
Distinct(q) ==
    IF Len(q) = 0 THEN <<>>
    ELSE LET front == Distinct(SubSeq(q, 1, Len(q) - 1))
         IN  IF \E i \in 1..Len(front) : front[i] = q[Len(q)] THEN front
             ELSE Append(front, q[Len(q)])

HistPassOver == pc \in {"fetch", "live", "done"} \/ (pc = "crashed" /\ hi > Len(urls))

LivePassOver == pc \in {"done", "crashed"} /\ Len(todo) > 0

\* C7: in both passes a failure while processing one URL produces no row for it
\* and does not abort the batch: every later URL of the pass, and every later
\* post of the live pass, is still processed.
C7_FailureIsolated ==
    /\ Len(RunRows) = Cardinality({i \in 1..Len(attempts) : attempts[i].row})
    /\ HistPassOver =>
         [i \in 1..Len(PassAttempts("hist")) |-> PassAttempts("hist")[i].src]
            = [i \in 1..Len(Distinct(urls)) |-> Some(Distinct(urls)[i])]
    /\ LivePassOver =>
         [i \in 1..Len(PassAttempts("live")) |-> PassAttempts("live")[i].src]
            = [i \in 1..Len(todo) |-> todo[i].url]

\* C8: within one historical pass, for every URL string occurring in the text
\* (once or more), identifier resolution is attempted at most once and at most
\* one row is appended for it; exactly one row when its resolution, metadata
\* fetch and append succeed, and once the pass is over it has been attempted.
C8_OncePerUrl ==
    \A k \in 1..Len(urls) :
        /\ Cardinality(AttemptsOf("hist", urls[k])) <= 1
        /\ Cardinality(RowsFrom(urls[k])) <= 1
        /\ \A i \in AttemptsOf("hist", urls[k]) :
              PassAttempts("hist")[i].row <=> Cardinality(RowsFrom(urls[k])) = 1
        /\ HistPassOver => Cardinality(AttemptsOf("hist", urls[k])) = 1

\* C8 witness: the pass is over, a URL that occurs three times in the text was
\* resolved once and has its one row.
C8_Witness ==
    /\ HistPassOver
    /\ \E u \in {urls[k] : k \in 1..Len(urls)} :
          /\ Cardinality({k \in 1..Len(urls) : urls[k] = u}) = 3
          /\ Cardinality(AttemptsOf("hist", u)) = 1
          /\ Cardinality(RowsFrom(u)) = 1

\* The integer since_id.txt holds, as the next invocation reads it.
Cursor == IF sinceFile.some THEN ParseInt(sinceFile.val) ELSE None

IsMaxOf(v, ids) == v \in ids /\ \A id \in ids : id <= v

\* C9 as stated: the persisted cursor is updated exactly once per live run, to
\* the maximum post identifier of the run's fetch.
C9_ExactlyOneWrite ==
    pc \in {"live", "done"}
        => /\ writes = 1
           /\ Cursor.some /\ IsMaxOf(Cursor.val, IdsOf(tweets))

\* C9 amended: the cursor is updated at most once per live run: exactly once,
\* to the maximum post identifier of the fetch, when the fetch returns at least
\* one post, and not at all when it returns none or fails.
C9_WriteOnceIfPosts ==
    /\ writes <= 1
    /\ tweets # <<>> => writes = 1 /\ Cursor.some /\ IsMaxOf(Cursor.val, IdsOf(tweets))
    /\ tweets = <<>> => writes = 0

\* C9 witness: a fetch returned two posts and the cursor was written once.
C9_Witness ==
    /\ pc = "done"
    /\ Len(tweets) = 2
    /\ writes = 1

\* C10: the cursor is written when the fetch completes, before any fetched post
\* is processed, and whatever the processing does: it is at least the id of
\* every post fetched, also of a post that produced no row, and such a post is
\* not fetched again by a later run.
C10_CursorBeforeProcessing ==
    /\ tweets # <<>>
         => /\ writes = 1
            /\ Cursor.some
            /\ \A id \in IdsOf(tweets) : id <= Cursor.val
    /\ \A id \in fetchedBefore :
          /\ Cursor.some /\ id <= Cursor.val
          /\ id \notin IdsOf(tweets)

\* C10 witness: a post of an earlier run produced no row, a later run fetched
\* other posts and has not processed any of them yet; the cursor is written.
C10_Witness ==
    /\ pc = "live" /\ li = 1
    /\ writes = 1
    /\ \E id \in fetchedBefore : \A i \in 1..Len(sheet) : sheet[i].source # TweetUrl(id)

(***************************************************************************)
(* Properties of the cursor over invocations (checked under SpecCursor)    *)
(***************************************************************************)
LiveRan == call.fn = "live" /\ call.n >= 1

\* The latest invocation got a non-empty answer from the feed.
GotPosts == LiveRan /\ call.user = "ok" /\ call.feedOk /\ call.page # <<>>

\* C11: the id an invocation writes to since_id.txt is the since_id the next
\* invocation sends, and an invocation that gets posts replaces what is stored
\* by the greatest id it got, also when that id is smaller than the stored one.
C11_PersistAndOverwrite ==
    LiveRan =>
        /\ call.writtenBefore.some => call.floor = call.writtenBefore
        /\ GotPosts =>
              /\ call.written = Some(SetMax(IdsOf(call.page)))
              /\ read_since_id(call.file) = call.written

\* An invocation that read 11, written by the one before, got only post 9 and
\* left 9 in since_id.txt.
C11_Witness ==
    /\ GotPosts
    /\ call.writtenBefore = Some(11)
    /\ call.floor = Some(11)
    /\ IdsOf(call.page) = {9}
    /\ call.file = Some("9")

\* C12: when every answer of the feed holds only ids above the since_id sent,
\* no post is returned by two invocations.
C12_FetchesDisjoint ==
    (call.fn = "live" /\ call.honest) =>
        IdsOf(call.out.tweets) \cap call.earlier = {}

\* Two invocations that each returned posts from such a feed.
C12_Witness ==
    /\ LiveRan
    /\ call.honest
    /\ call.floor.some
    /\ call.earlier # {}
    /\ call.out.tweets # <<>>

(***************************************************************************)
(* Order of processing and of the rows (checked under Spec)                *)
(***************************************************************************)
\* The least position from `from` on where u occurs in s, 0 when none.
OccursFrom(s, u, from) ==
    LET ps == {p \in from..Len(s) : HasAt(s, p, u)}
    IN  IF ps = {} THEN 0 ELSE SetMin(ps)

\* The elements of us occur in s one after the other, without overlap.
RECURSIVE InTextOrder(_, _, _)
InTextOrder(s, us, from) ==
    IF Len(us) = 0 THEN TRUE
    ELSE LET p == OccursFrom(s, us[1], from)
         IN  p > 0 /\ InTextOrder(s, Tail(us), p + Len(us[1]))

\* The number of URL entities of the posts before the p-th of tweets.
RECURSIVE UrlsBefore(_)
UrlsBefore(p) == IF p <= 1 THEN 0 ELSE UrlsBefore(p - 1) + Len(UrlsOf(tweets[p - 1]))

\* The post holding the n-th URL entity of tweets, posts taken in the order of
\* tweets and entities in the order of each post.
PostAt(n) ==
    CHOOSE p \in 1..Len(tweets) :
        UrlsBefore(p) < n /\ n <= UrlsBefore(p) + Len(UrlsOf(tweets[p]))

\* The provenance of the row of the i-th URL processed by this invocation.
SourceOf(i) ==
    IF attempts[i].pass = "hist" THEN attempts[i].src.val
    ELSE TweetUrl(tweets[PostAt(i - Len(PassAttempts("hist")))].id)

\* The URLs processed by this invocation whose iteration appended a row.
Appended == SelectSeq([i \in 1..Len(attempts) |-> i], LAMBDA i : attempts[i].row)

\* C13: the URLs are processed in the order extracted: those of the text in
\* textual order (first occurrences), then those of the posts, post after post
\* in the order fetched and entity after entity within a post; the rows of the
\* invocation are in the order in which their URLs were processed.
C13_OrderKept ==
    /\ (pc = "hist" /\ hi = 1) => InTextOrder(histFile.val, urls, 1)
    /\ \A i \in 1..Len(attempts) : \A j \in i..Len(attempts) :
          attempts[i].pass = "live" => attempts[j].pass = "live"
    /\ LET firsts == Distinct(urls)
       IN  /\ Len(PassAttempts("hist")) <= Len(firsts)
           /\ \A i \in 1..Len(PassAttempts("hist")) :
                 PassAttempts("hist")[i].src = Some(firsts[i])
    /\ \A n \in 1..Len(PassAttempts("live")) :
          PassAttempts("live")[n].src
             = UrlsOf(tweets[PostAt(n)])[n - UrlsBefore(PostAt(n))]
    /\ Len(RunRows) = Len(Appended)
    /\ \A k \in 1..Len(Appended) : RunRows[k].source = SourceOf(Appended[k])

\* An invocation that ended with rows of two URLs of the text and then rows of
\* two posts, the post fetched first before the other.
C13_Witness ==
    /\ pc = "done"
    /\ Len(tweets) = 2
    /\ Len(RunRows) >= 4
    /\ Len(Distinct(urls)) >= 2
    /\ RunRows[1].source = Distinct(urls)[1]
    /\ RunRows[2].source = Distinct(urls)[2]
    /\ RunRows[Len(RunRows) - 1].source = TweetUrl(tweets[1].id)
    /\ RunRows[Len(RunRows)].source = TweetUrl(tweets[2].id)

(***************************************************************************)
(* Properties of fetch_metadata (checked under SpecMetadata)               *)
(***************************************************************************)
\* fetch_metadata was applied to a 200 answer with a message.
GotMessage ==
    /\ call.fn = "fetch_metadata"
    /\ ~call.resp.exc /\ call.resp.status < 400 /\ call.resp.json

\* The date has a first date-part with a first component.
HasYear(date) ==
    /\ date.some /\ date.val.some
    /\ Len(date.val.val) > 0
    /\ Len(date.val.val[1]) > 0
    /\ date.val.val[1][1].some

YearOf(date) == date.val.val[1][1]

\* C14 as stated: the year returned is the first component of published-print
\* when the message has it, else of published-online, else of issued, and is
\* absent when it has none of them.
C14_YearPrefersPrint ==
    (GotMessage /\ ~call.out.raised) =>
        call.out.ret.year =
            (IF HasYear(call.resp.msg.print) THEN YearOf(call.resp.msg.print)
             ELSE IF HasYear(call.resp.msg.online) THEN YearOf(call.resp.msg.online)
             ELSE IF HasYear(call.resp.msg.issued) THEN YearOf(call.resp.msg.issued)
             ELSE None)

\* C14 amended: the year returned is the first component of issued when the
\* message has it and absent otherwise, whatever published-print and
\* published-online hold; nothing is returned when the date-parts of issued are
\* an empty list or start with an empty list.
C14_YearFromIssued ==
    GotMessage =>
        /\ ~call.out.raised =>
              call.out.ret.year = (IF HasYear(call.resp.msg.issued)
                                   THEN YearOf(call.resp.msg.issued) ELSE None)
        /\ (call.resp.msg.issued.some /\ call.resp.msg.issued.val.some
            /\ (Len(call.resp.msg.issued.val.val) = 0
                \/ Len(call.resp.msg.issued.val.val[1]) = 0)) => call.out.raised

\* A message printed in 2021 and issued in 2020: the year returned is 2020.
C14_Witness ==
    /\ GotMessage
    /\ ~call.out.raised
    /\ HasYear(call.resp.msg.print)
    /\ YearOf(call.resp.msg.print) = Some(2021)
    /\ call.out.ret.year = Some(2020)

\* The first element of a list field, "" when it is missing or empty.
FirstOr(field) == IF field.some /\ Len(field.val) > 0 THEN field.val[1] ELSE ""

\* The issued date is one fetch_metadata can read.
IssuedReadable ==
    (call.resp.msg.issued.some /\ call.resp.msg.issued.val.some) =>
        /\ Len(call.resp.msg.issued.val.val) > 0
        /\ Len(call.resp.msg.issued.val.val[1]) > 0

\* C15: title and journal are the first element of "title" and of
\* "container-title", the empty string when the field is missing and when it
\* is an empty list, and fetch_metadata does not fail in either case.
C15_EmptyListIsEmptyString ==
    (GotMessage /\ IssuedReadable) =>
        /\ ~call.out.raised
        /\ call.out.ret.title = FirstOr(call.resp.msg.title)
        /\ call.out.ret.journal = FirstOr(call.resp.msg.container)

(***************************************************************************)
(* Properties of an invocation as a whole (checked under Spec)             *)
(***************************************************************************)
\* init_sheet() returned: the credentials and the sheet were loaded.
ConfigLoaded == pc \notin {"idle", "noconfig"}

\* C16: once the configuration has loaded, the invocation never ends with an
\* uncaught exception (a non-zero exit status), whatever the outcomes of the
\* URLs and of the feed.
C16_ZeroExitOnceConfigured == ConfigLoaded => pc # "crashed"

\* The rows of this invocation whose provenance is a URL of the text.
HistRows == {i \in 1..Len(RunRows) : \E k \in 1..Len(urls) : RunRows[i].source = urls[k]}

\* C17 as stated: an invocation (the program takes no argument, so every
\* invocation is the default one) resolves no URL of the historical text and
\* appends no row whose provenance is such a URL.
C17_DefaultRunsLiveOnly == PassAttempts("hist") = <<>> /\ HistRows = {}

\* C17 amended: every invocation whose configuration loads runs both passes,
\* the historical one first: it extracts the URLs of the text, and it has
\* resolved each distinct one of them before it fetches from the feed and
\* before any URL of a post is processed.
C17_BothPassesInOrder ==
    /\ (ConfigLoaded /\ attempts = <<>>) =>
          urls = (IF histFile.some THEN FindAllFrom(histFile.val, 1) ELSE <<>>)
    /\ (pc \in {"fetch", "live", "done"} \/ tweets # <<>> \/ writes > 0
        \/ PassAttempts("live") # <<>>) =>
          Len(PassAttempts("hist")) = Cardinality({urls[k] : k \in 1..Len(urls)})
    /\ pc = "hist" => (tweets = <<>> /\ writes = 0 /\ PassAttempts("live") = <<>>)

\* An invocation in its live pass after it resolved two URLs of the text and
\* appended a row for one of them.
C17_Witness ==
    /\ pc = "live"
    /\ tweets # <<>>
    /\ Len(PassAttempts("hist")) >= 2
    /\ HistRows # {}

\* C19: a step of the historical pass, and the fetch of a live pass that
\* returns no post (the feed has none, or the account lookup or the feed call
\* fails), leave since_id.txt as it was, absent if it was absent; an
\* invocation whose fetch returned no post processes no URL of a post, and all
\* its rows come from the historical text.
C19_CursorUntouched ==
    [][/\ (pc = "hist" \/ pc' = "hist") => (sinceFile' = sinceFile /\ writes' = 0)
       /\ (pc = "fetch" /\ tweets' = <<>>) =>
             /\ sinceFile' = sinceFile
             /\ writes' = 0
             /\ sheet' = sheet
             /\ pc' \in {"done", "crashed"}
       /\ (tweets' = <<>> /\ ConfigLoaded') =>
             /\ PassAttempts("live")' = <<>>
             /\ Cardinality(HistRows') = Len(RunRows')
      ]_vars

\* A second invocation that appended rows from the text, fetched nothing and
\* ended with since_id.txt as the first invocation wrote it.
C19_Witness ==
    /\ pc = "done"
    /\ run = 2
    /\ tweets = <<>>
    /\ writes = 0
    /\ fetchedBefore # {}
    /\ Cursor = Some(SetMax(fetchedBefore))
    /\ Len(RunRows) > 0

(***************************************************************************)
(* Properties of one fetch against a long account (checked under           *)
(* SpecBacklog)                                                            *)
(***************************************************************************)
\* The post is newer than START_TIME and above the id since_id.txt holds (any
\* post newer than START_TIME when it holds none).
AboveCursor(t, file) ==
    ~t.old /\ (read_since_id(file).some => t.id > read_since_id(file).val)

\* C18: every post that was above the cursor when fetch_new_tweets started is
\* among the posts it returned or is still above the cursor when it ends, also
\* when more such posts were pending than one page holds.
C18_NoPostLost ==
    call.fn = "fetch_new_tweets" =>
        \A k \in 1..Len(call.posts) :
            AboveCursor(call.posts[k], call.file) =>
                \/ call.posts[k].id \in IdsOf(call.out.tweets)
                \/ AboveCursor(call.posts[k], call.out.file)

====
